---- MODULE Spec2Model ----
(***************************************************************************)
(* Sunburst visual (starburstsimple01): hierarchy builders, d3 hierarchy   *)
(* sum / sort / partition, and the zoomTo target computation, for the      *)
(* variants of visual.ts kept in the repository.                           *)
(*                                                                         *)
(*   DV   src/src/visual.ts     buildHierarchyFromDataView  (measure)      *)
(*   P0   src/unnamed/part_000  buildHierarchyFromPowerBI   (norm, count)  *)
(*   P2   src/unnamed/part_002  inline build + rollup       (count)        *)
(*   P3A  src/unnamed/part_003  buildHierarchyFromFlat      (measure)      *)
(*   P3B  src/unnamed/part_003  buildHierarchyFromPowerBI + cleanAndRollup *)
(*   P4   src/unnamed/part_004  inline build + rollup       (count)        *)
(*                                                                         *)
(* Strings are sequences of one-character strings, so that trim,           *)
(* toLowerCase and the path-key join are computed, not assumed.            *)
(* Angles are exact rationals in units of 2*pi (one turn), radii exact     *)
(* rationals in units of the outer radius R.                               *)
(***************************************************************************)
EXTENDS Integers, Sequences, FiniteSets, TLC

\* ------------------------------------------------------------------ bounds
\* rows the host delivers in one data view
MaxRows == 2
\* level columns of a data view whose labels range over every string form
NumLevels == 2
\* level columns of a data view with plain labels
DeepLevels == 3

\* ------------------------------------------------------------- JS strings
\* the null / undefined cell of a column: a one-element sequence whose
\* element is no character, so it compares with every string
NullLabel == <<"NUL">>

\* the separator of buildHierarchyFromFlat's path keys (U+00A6 in the source)
Sep == "|"

Str(s) == s

S_a == <<"a">>
S_b == <<"b">>
S_sp_a == <<" ", "a">>
S_sp == <<" ">>
S_a_sep_a == <<"a", Sep, "a">>
S_NULL == <<"N", "U", "L", "L">>
S_null == <<"n", "u", "l", "l">>
S_blank == <<"(", "b", "l", "a", "n", "k", ")">>
S_empty == <<"(", "e", "m", "p", "t", "y", ")">>

IsWs(c) == c = " "

RECURSIVE TrimStart(_)
TrimStart(s) ==
  IF s = <<>> THEN <<>>
  ELSE IF IsWs(Head(s)) THEN TrimStart(Tail(s)) ELSE s

RECURSIVE TrimEnd(_)
TrimEnd(s) ==
  IF s = <<>> THEN <<>>
  ELSE IF IsWs(s[Len(s)]) THEN TrimEnd(SubSeq(s, 1, Len(s) - 1)) ELSE s

\* String.prototype.trim
Trim(s) == TrimEnd(TrimStart(s))

LowerChar(c) ==
  CASE c = "N" -> "n"
    [] c = "U" -> "u"
    [] c = "L" -> "l"
    [] OTHER -> c

\* String.prototype.toLowerCase
ToLowerCase(s) == [i \in 1..Len(s) |-> LowerChar(s[i])]

\* --------------------------------------------------------------- rationals
\* [n, d] with d > 0 in lowest terms; d = 0 encodes the IEEE specials:
\* n = 0 NaN, n = 1 +Infinity, n = -1 -Infinity
Abs(x) == IF x < 0 THEN -x ELSE x
Sgn(x) == IF x < 0 THEN -1 ELSE IF x > 0 THEN 1 ELSE 0

RECURSIVE Gcd(_, _)
Gcd(a, b) == IF b = 0 THEN a ELSE Gcd(b, a % b)

Q(n, d) ==
  IF d = 0 THEN [n |-> Sgn(n), d |-> 0]
  ELSE LET s == IF d < 0 THEN -1 ELSE 1
           g == Gcd(Abs(n), Abs(d))
       IN [n |-> (s * n) \div g, d |-> (s * d) \div g]

QInt(i) == [n |-> i, d |-> 1]
QZero == QInt(0)
QOne == QInt(1)
QNaN == [n |-> 0, d |-> 0]
IsNaN(a) == a.d = 0 /\ a.n = 0
IsFinite(a) == a.d > 0

\* finite operands only (the layout never divides by zero: treemapDice guards)
QAdd(a, b) == Q(a.n * b.d + b.n * a.d, a.d * b.d)
QSub(a, b) == Q(a.n * b.d - b.n * a.d, a.d * b.d)
QMul(a, b) == Q(a.n * b.n, a.d * b.d)
QLt(a, b) == a.n * b.d < b.n * a.d
QLe(a, b) == a.n * b.d <= b.n * a.d

\* IEEE division of finite operands: x/0 is +-Infinity, 0/0 is NaN
QDiv(a, b) ==
  IF b.n = 0 THEN [n |-> Sgn(a.n), d |-> 0]
  ELSE Q(a.n * b.d, a.d * b.n)

\* Math.min / Math.max with one finite constant c: NaN propagates
MathMin(c, a) ==
  IF IsNaN(a) THEN QNaN
  ELSE IF a.d = 0 THEN (IF a.n > 0 THEN c ELSE a)
  ELSE IF QLt(a, c) THEN a ELSE c

MathMax(c, a) ==
  IF IsNaN(a) THEN QNaN
  ELSE IF a.d = 0 THEN (IF a.n < 0 THEN c ELSE a)
  ELSE IF QLt(c, a) THEN a ELSE c

\* ---------------------------------------------------------------- inputs
Variants == {"DV", "P0", "P2", "P3A", "P3B", "P4"}

\* a cell of the measure column: has = FALSE is null / undefined
NoCell == [has |-> FALSE, v |-> 0]
Num(i) == [has |-> TRUE, v |-> i]

\* the number of Level roles of buildHierarchyFromDataView (ROLE_ORDER)
RoleCount == 4

\* ------------------------------------------------- blank tests per variant
\* visual.ts isBlank
isBlank(v) == v = NullLabel \/ Trim(v) = <<>>

\* visual.ts toText
toText(v) == IF isBlank(v) THEN <<>> ELSE Str(v)

\* part_000 norm: null for a blank label, the trimmed string otherwise
norm(v) ==
  IF v = NullLabel THEN NullLabel
  ELSE LET s == Trim(Str(v))
           lo == ToLowerCase(s)
       IN IF s = <<>> THEN NullLabel
          ELSE IF lo = S_null \/ lo = S_blank \/ lo = S_empty THEN NullLabel
          ELSE s

\* part_002 loop test (v == null || v === "" || v === "null"); part_003
\* second class uses the same test
StopP2(v) == v = NullLabel \/ v = <<>> \/ v = S_null

\* part_004 loop test (v == null || v === "")
StopP4(v) == v = NullLabel \/ v = <<>>

\* part_003 buildHierarchyFromFlat loop test (!name)
StopFlat(v) == v = NullLabel \/ v = <<>>

\* ----------------------------------------------------------- builder nodes
\* node 1 is the synthetic root; children are the nodes whose parent is the
\* node, in index order (every builder appends a child when it creates it)
RootName(variant) ==
  CASE variant = "DV" -> <<"r", "o", "o", "t">>
    [] variant = "P4" -> <<"r", "o", "o", "t">>
    [] variant = "P0" -> <<"W", "i", "e", "n">>
    [] variant = "P3A" -> <<"W", "i", "e", "n">>
    [] OTHER -> <<"R", "o", "o", "t">>

\* acc: the value the row loop holds on the node (has = FALSE: undefined);
\* DV creates every node with value 0
MkNode(name, parent, depth, key, variant) ==
  [name |-> name, parent |-> parent, depth |-> depth, key |-> key,
   acc |-> IF variant = "DV" THEN Num(0) ELSE NoCell]

InitNodes(variant) == << MkNode(RootName(variant), 0, 0, <<>>, variant) >>

ChildIds(nodes, i) == {j \in 1..Len(nodes) : nodes[j].parent = i}

IsLeafData(nodes, i) == ChildIds(nodes, i) = {}

\* Map.get(name) on the child map of node cur: 0 when absent
FindChild(nodes, cur, name) ==
  LET hit == {j \in ChildIds(nodes, cur) : nodes[j].name = name}
  IN IF hit = {} THEN 0 ELSE CHOOSE j \in hit : TRUE

\* mapsPerDepth[d].get(pathKey) of buildHierarchyFromFlat (depth = d + 1)
FindByKey(nodes, depth, pathKey) ==
  LET hit == {j \in 2..Len(nodes) : nodes[j].depth = depth /\ nodes[j].key = pathKey}
  IN IF hit = {} THEN 0 ELSE CHOOSE j \in hit : TRUE

\* walk / create along a path of names with per-parent child maps;
\* st = [nodes, cur, trail]
RECURSIVE WalkChildMap(_, _, _, _)
WalkChildMap(st, names, i, variant) ==
  IF i > Len(names) THEN st
  ELSE LET found == FindChild(st.nodes, st.cur, names[i])
           nodes2 == IF found = 0
                     THEN Append(st.nodes, MkNode(names[i], st.cur, i, names[i], variant))
                     ELSE st.nodes
           nxt == IF found = 0 THEN Len(nodes2) ELSE found
       IN WalkChildMap([nodes |-> nodes2, cur |-> nxt, trail |-> Append(st.trail, nxt)],
                       names, i + 1, variant)

\* the labels a row walks: the prefix before the first label the loop stops
\* at; stop[k] tells whether the loop's test breaks at labels[k]
TakeUntil(labels, stop) ==
  LET stops == {k \in 1..Len(labels) : stop[k]}
      end == IF stops = {} THEN Len(labels) + 1
             ELSE CHOOSE k \in stops : \A m \in stops : k <= m
  IN SubSeq(labels, 1, end - 1)

AddTo(cell, inc) == Num((IF cell.has THEN cell.v ELSE 0) + inc)

SetAcc(nodes, i, cell) == [nodes EXCEPT ![i].acc = cell]

\* --------------------------------------------------- row loops per variant
\* bs = [nodes, visited]; visited[r] is the sequence of nodes row r walked

\* part_000 buildHierarchyFromPowerBI, one row
RowP0(bs, row) ==
  LET kept == TakeUntil(row.labels,
                        [j \in 1..Len(row.labels) |-> norm(row.labels[j]) = NullLabel])
      path == [k \in 1..Len(kept) |-> norm(kept[k])]
      w == WalkChildMap([nodes |-> bs.nodes, cur |-> 1, trail |-> <<>>], path, 1, "P0")
  IN IF path = <<>> THEN [nodes |-> bs.nodes, visited |-> Append(bs.visited, <<>>)]
     ELSE [nodes |-> SetAcc(w.nodes, w.cur, AddTo(w.nodes[w.cur].acc, 1)),
           visited |-> Append(bs.visited, w.trail)]

\* part_002 update, one row: only a node without children is counted
RowP2(bs, row) ==
  LET path == TakeUntil(row.labels, [k \in 1..Len(row.labels) |-> StopP2(row.labels[k])])
      w == WalkChildMap([nodes |-> bs.nodes, cur |-> 1, trail |-> <<>>], path, 1, "P2")
  IN IF path = <<>> THEN [nodes |-> bs.nodes, visited |-> Append(bs.visited, <<>>)]
     ELSE [nodes |-> IF IsLeafData(w.nodes, w.cur)
                     THEN SetAcc(w.nodes, w.cur, AddTo(w.nodes[w.cur].acc, 1))
                     ELSE w.nodes,
           visited |-> Append(bs.visited, w.trail)]

\* part_003 (second class) buildHierarchyFromPowerBI, one row
RowP3B(bs, row) ==
  LET path == TakeUntil(row.labels, [k \in 1..Len(row.labels) |-> StopP2(row.labels[k])])
      w == WalkChildMap([nodes |-> bs.nodes, cur |-> 1, trail |-> <<>>], path, 1, "P3B")
  IN IF path = <<>> THEN [nodes |-> bs.nodes, visited |-> Append(bs.visited, <<>>)]
     ELSE [nodes |-> SetAcc(w.nodes, w.cur, AddTo(w.nodes[w.cur].acc, 1)),
           visited |-> Append(bs.visited, w.trail)]

\* part_004 update, one row
RowP4(bs, row) ==
  LET path == TakeUntil(row.labels, [k \in 1..Len(row.labels) |-> StopP4(row.labels[k])])
      w == WalkChildMap([nodes |-> bs.nodes, cur |-> 1, trail |-> <<>>], path, 1, "P4")
  IN IF path = <<>> THEN [nodes |-> bs.nodes, visited |-> Append(bs.visited, <<>>)]
     ELSE [nodes |-> SetAcc(w.nodes, w.cur, AddTo(w.nodes[w.cur].acc, 1)),
           visited |-> Append(bs.visited, w.trail)]

\* visual.ts buildHierarchyFromDataView: labels over the ROLE_ORDER roles, a
\* role without a bound column reads null
RoleLabels(row) ==
  [k \in 1..RoleCount |-> IF k <= Len(row.labels) THEN row.labels[k] ELSE NullLabel]

\* visual.ts deepestIdx (1-based; 0 when every level is blank)
deepestIdx(names) ==
  LET nb == {k \in 1..Len(names) : ~isBlank(names[k])}
  IN IF nb = {} THEN 0 ELSE CHOOSE k \in nb : \A m \in nb : m <= k

\* visual.ts "measure or default 1": Number(null) is 0, NaN becomes 0
IncDV(row, valueBound) ==
  IF valueBound THEN (IF row.measure.has THEN row.measure.v ELSE 0) ELSE 1

\* visual.ts buildHierarchyFromDataView, one row
RowDV(bs, row, valueBound) ==
  LET names == [k \in 1..RoleCount |-> toText(RoleLabels(row)[k])]
      deep == deepestIdx(names)
      inc == IncDV(row, valueBound)
      path == TakeUntil(SubSeq(names, 1, deep), [k \in 1..deep |-> isBlank(names[k])])
      w == WalkChildMap([nodes |-> bs.nodes, cur |-> 1, trail |-> <<>>], path, 1, "DV")
  IN IF deep = 0 \/ inc = 0
     THEN [nodes |-> bs.nodes, visited |-> Append(bs.visited, <<>>)]
     ELSE [nodes |-> SetAcc(w.nodes, w.cur, AddTo(w.nodes[w.cur].acc, inc)),
           visited |-> Append(bs.visited, w.trail)]

\* part_003 buildHierarchyFromFlat inner loop (no levelKeys role bound):
\* st = [nodes, cur, trail], d is the 1-based level
RECURSIVE WalkFlat(_, _, _, _)
WalkFlat(st, labels, d, pathKey) ==
  IF d > Len(labels) \/ StopFlat(labels[d]) THEN st
  ELSE LET name == labels[d]
           keyPart == Trim(name)
           pk == IF pathKey # <<>> THEN pathKey \o <<Sep>> \o keyPart ELSE keyPart
           found == FindByKey(st.nodes, d, pk)
           nodes2 == IF found = 0
                     THEN Append(st.nodes, MkNode(name, st.cur, d, pk, "P3A"))
                     ELSE st.nodes
           nxt == IF found = 0 THEN Len(nodes2) ELSE found
       IN WalkFlat([nodes |-> nodes2, cur |-> nxt, trail |-> Append(st.trail, nxt)],
                   labels, d + 1, pk)

\* part_003 buildHierarchyFromFlat, one row: the value goes to the node the
\* walk ended at (the root when the first label is blank) if it has no child
RowFlat(bs, row) ==
  LET w == WalkFlat([nodes |-> bs.nodes, cur |-> 1, trail |-> <<>>], row.labels, 1, <<>>)
      m == IF row.measure.has THEN row.measure.v ELSE 1
  IN [nodes |-> IF IsLeafData(w.nodes, w.cur)
                THEN SetAcc(w.nodes, w.cur, AddTo(w.nodes[w.cur].acc, m))
                ELSE w.nodes,
      visited |-> Append(bs.visited, w.trail)]

RowStep(variant, bs, row, valueBound) ==
  CASE variant = "DV" -> RowDV(bs, row, valueBound)
    [] variant = "P0" -> RowP0(bs, row)
    [] variant = "P2" -> RowP2(bs, row)
    [] variant = "P3A" -> RowFlat(bs, row)
    [] variant = "P3B" -> RowP3B(bs, row)
    [] variant = "P4" -> RowP4(bs, row)

\* the row loop of the variant's builder over the whole data view
RECURSIVE RowLoop(_, _, _, _)
RowLoop(variant, rows, k, valueBound) ==
  IF k = 0 THEN [nodes |-> InitNodes(variant), visited |-> <<>>]
  ELSE RowStep(variant, RowLoop(variant, rows, k - 1, valueBound), rows[k], valueBound)

\* ------------------------------------------------------------ finalisation
RECURSIVE SumOver(_, _)
SumOver(S, f) ==
  IF S = {} THEN 0
  ELSE LET x == CHOOSE y \in S : TRUE IN f[x] + SumOver(S \ {x}, f)

CellOr0(c) == IF c.has THEN c.v ELSE 0

\* part_002 rollup: an internal node takes the sum of its children, a leaf
\* keeps its value or defaults to 1 (n.value || 1)
RECURSIVE rollupP2(_, _)
rollupP2(nodes, i) ==
  IF ~IsLeafData(nodes, i)
  THEN SumOver(ChildIds(nodes, i), [c \in ChildIds(nodes, i) |-> rollupP2(nodes, c)])
  ELSE IF CellOr0(nodes[i].acc) # 0 THEN nodes[i].acc.v ELSE 1

\* part_004 rollup: returns n.value ?? 0, set to the children's sum first
\* when there are children
RECURSIVE rollupP4(_, _)
rollupP4(nodes, i) ==
  IF ~IsLeafData(nodes, i)
  THEN SumOver(ChildIds(nodes, i), [c \in ChildIds(nodes, i) |-> rollupP4(nodes, c)])
  ELSE CellOr0(nodes[i].acc)

\* part_003 cleanAndRollup
RECURSIVE cleanAndRollup(_, _)
cleanAndRollup(nodes, i) ==
  IF ~IsLeafData(nodes, i)
  THEN SumOver(ChildIds(nodes, i), [c \in ChildIds(nodes, i) |-> cleanAndRollup(nodes, c)])
  ELSE CellOr0(nodes[i].acc)

\* the value field of the data node handed to d3.hierarchy, per variant:
\*   DV   convert: a node with children carries no value, a leaf its value
\*   P0   strip only
\*   P2   rollup           P4  rollup           P3B  cleanAndRollup
\*   P3A  finalize: a leaf without a value gets 1; the root is without
\*        children and value only when update() did not call the builder
\*        (no rows), and then it is not finalized
DataValue(variant, nodes, i) ==
  CASE variant = "DV" ->
         IF i = 1 \/ ~IsLeafData(nodes, i) THEN NoCell ELSE nodes[i].acc
    [] variant = "P0" -> nodes[i].acc
    [] variant = "P2" -> Num(rollupP2(nodes, i))
    [] variant = "P4" ->
         IF IsLeafData(nodes, i) THEN nodes[i].acc ELSE Num(rollupP4(nodes, i))
    [] variant = "P3B" ->
         IF IsLeafData(nodes, i) THEN nodes[i].acc ELSE Num(cleanAndRollup(nodes, i))
    [] variant = "P3A" ->
         IF IsLeafData(nodes, i) /\ ~nodes[i].acc.has
         THEN (IF i = 1 THEN NoCell ELSE Num(1))
         ELSE nodes[i].acc

\* ------------------------------------------------------- d3.hierarchy.sum
\* the accessor each variant passes to .sum()
SumAccessor(variant, nodes, i) ==
  IF variant = "P0"
  THEN (IF ~IsLeafData(nodes, i) THEN 0 ELSE CellOr0(DataValue(variant, nodes, i)))
  ELSE CellOr0(DataValue(variant, nodes, i))

\* node.value = accessor(node.data) + sum of the children's node.value
RECURSIVE HierarchySum(_, _, _)
HierarchySum(variant, nodes, i) ==
  SumAccessor(variant, nodes, i)
    + SumOver(ChildIds(nodes, i),
              [c \in ChildIds(nodes, i) |-> HierarchySum(variant, nodes, c)])

\* ------------------------------------------------------ d3.hierarchy.sort
\* Array.prototype.sort with (a, b) => b.value - a.value: stable, descending
RECURSIVE InsertSorted(_, _, _)
InsertSorted(sorted, j, hv) ==
  IF sorted = <<>> THEN <<j>>
  ELSE IF hv[Head(sorted)] >= hv[j]
       THEN <<Head(sorted)>> \o InsertSorted(Tail(sorted), j, hv)
       ELSE <<j>> \o sorted

RECURSIVE SortIds(_, _, _)
SortIds(S, acc, hv) ==
  IF S = {} THEN acc
  ELSE LET j == CHOOSE x \in S : \A y \in S : x <= y
       IN SortIds(S \ {j}, InsertSorted(acc, j, hv), hv)

SortedKids(nodes, i, hv) == SortIds(ChildIds(nodes, i), <<>>, hv)

\* ------------------------------------------------------------ d3.partition
RECURSIVE Height(_, _)
Height(nodes, i) ==
  IF IsLeafData(nodes, i) THEN 0
  ELSE LET hs == {Height(nodes, c) : c \in ChildIds(nodes, i)}
       IN 1 + CHOOSE h \in hs : \A g \in hs : g <= h

IndexOf(seq, x) == CHOOSE k \in 1..Len(seq) : seq[k] = x

RECURSIVE SumSeqPrefix(_, _, _)
SumSeqPrefix(seq, k, hv) ==
  IF k = 0 THEN 0 ELSE hv[seq[k]] + SumSeqPrefix(seq, k - 1, hv)

\* treemapDice on the parent's span as the parent's own dice left it:
\* k = parent.value && (x1 - x0) / parent.value; x0 += node.value * k
RECURSIVE DiceX(_, _, _)
DiceX(nodes, i, hv) ==
  IF i = 1 THEN [x0 |-> QZero, x1 |-> QOne]
  ELSE LET p == nodes[i].parent
           px == DiceX(nodes, p, hv)
           kids == SortedKids(nodes, p, hv)
           pos == IndexOf(kids, i)
           k == IF hv[p] = 0 THEN QZero
                ELSE QDiv(QSub(px.x1, px.x0), QInt(hv[p]))
           x0 == QAdd(px.x0, QMul(QInt(SumSeqPrefix(kids, pos - 1, hv)), k))
       IN [x0 |-> x0, x1 |-> QAdd(x0, QMul(QInt(hv[i]), k))]

\* positionNode: a reversed span collapses to its midpoint (padding is 0)
PositionX(raw) ==
  IF QLt(raw.x1, raw.x0)
  THEN LET mid == QDiv(QAdd(raw.x0, raw.x1), QInt(2)) IN [x0 |-> mid, x1 |-> mid]
  ELSE raw

\* a partition that divides R by the height, without the root's own band
PartitionHeightRings(variant, nodes) ==
  LET hv == [i \in 1..Len(nodes) |-> HierarchySum(variant, nodes, i)]
      n == Height(nodes, 1)
  IN [i \in 1..Len(nodes) |->
        LET x == PositionX(DiceX(nodes, i, hv))
        IN [value |-> hv[i],
            depth |-> nodes[i].depth,
            parent |-> nodes[i].parent,
            name |-> nodes[i].name,
            children |-> SortedKids(nodes, i, hv),
            x0 |-> x.x0, x1 |-> x.x1,
            y0 |-> Q(nodes[i].depth - 1, n), y1 |-> Q(nodes[i].depth, n)]]

\* d3.hierarchy(data).sum(..).sort(..) then d3.partition().size([2*pi, R]):
\* one record per node, x in turns (1 = 2*pi), y in units of R
Partition(variant, nodes) ==
  LET hv == [i \in 1..Len(nodes) |-> HierarchySum(variant, nodes, i)]
      n == Height(nodes, 1) + 1
  IN [i \in 1..Len(nodes) |->
        LET x == PositionX(DiceX(nodes, i, hv))
        IN [value |-> hv[i],
            depth |-> nodes[i].depth,
            parent |-> nodes[i].parent,
            name |-> nodes[i].name,
            children |-> SortedKids(nodes, i, hv),
            x0 |-> x.x0, x1 |-> x.x1,
            y0 |-> Q(nodes[i].depth, n), y1 |-> Q(nodes[i].depth + 1, n)]]

\* ------------------------------------------------------------------ zoomTo
Clamp01(x) == MathMax(QZero, MathMin(QOne, x))

\* zoomTo's target without the Math.max(0, ..) on the radii
ZoomTargetUnclampedY(d, p) ==
  [x0 |-> Clamp01(QDiv(QSub(d.x0, p.x0), QSub(p.x1, p.x0))),
   x1 |-> Clamp01(QDiv(QSub(d.x1, p.x0), QSub(p.x1, p.x0))),
   y0 |-> QSub(d.y0, p.y0),
   y1 |-> QSub(d.y1, p.y0)]

\* the target rect zoomTo(p) assigns to node d (x in turns, so the final
\* "* 2 * Math.PI" is the unit)
ZoomTarget(d, p) ==
  [x0 |-> Clamp01(QDiv(QSub(d.x0, p.x0), QSub(p.x1, p.x0))),
   x1 |-> Clamp01(QDiv(QSub(d.x1, p.x0), QSub(p.x1, p.x0))),
   y0 |-> MathMax(QZero, QSub(d.y0, p.y0)),
   y1 |-> MathMax(QZero, QSub(d.y1, p.y0))]

\* root.each(d => d.target = ...): every node of the layout gets a target
ZoomTargets(layout, p) ==
  [i \in 1..Len(layout) |-> <<ZoomTarget(layout[i], layout[p])>>]

NoTargets(layout) == [i \in 1..Len(layout) |-> <<>>]

Rect(d) == [x0 |-> d.x0, x1 |-> d.x1, y0 |-> d.y0, y1 |-> d.y1]

\* ------------------------------------------------------------- tree walks
\* n.ancestors().reverse(): the nodes from the root down to n
RECURSIVE safeAncestors(_, _)
safeAncestors(lay, i) ==
  IF lay[i].parent = 0 THEN <<i>>
  ELSE Append(safeAncestors(lay, lay[i].parent), i)

\* root.descendants(): breadth first, children in sorted order
RECURSIVE Bfs(_, _, _)
Bfs(lay, queue, out) ==
  IF queue = <<>> THEN out
  ELSE Bfs(lay, Tail(queue) \o lay[Head(queue)].children, Append(out, Head(queue)))

\* root.descendants().filter(d => d.depth > 0)
nodesList(lay) == Tail(Bfs(lay, <<1>>, <<>>))

\* "|" (the separator of the join keys) and "/" (P0's path key)
Pipe == "pipe"
Slash == "slash"

\* names joined by a separator
RECURSIVE JoinNames(_, _, _)
JoinNames(lay, ids, sep) ==
  IF ids = <<>> THEN <<>>
  ELSE IF Len(ids) = 1 THEN lay[ids[1]].name
  ELSE lay[ids[1]].name \o <<sep>> \o JoinNames(lay, Tail(ids), sep)

\* the node a click on the breadcrumb entry of p's k-th root-path node
\* (1: the root) zooms to. DV, P3A and P3B look the entry up in nodesList by
\* depth and name and fall back to the root, P0 by the "/"-joined path key,
\* P2 and P4 take the node of the trail's own ancestor sequence
CrumbTarget(v, lay, p, k) ==
  LET anc == safeAncestors(lay, p)
      nl == nodesList(lay)
      byName == {m \in 1..Len(nl) : lay[nl[m]].depth = lay[anc[k]].depth
                                     /\ lay[nl[m]].name = lay[anc[k]].name}
      byKey == {m \in 1..Len(nl) :
                  JoinNames(lay, safeAncestors(lay, nl[m]), Slash)
                    = JoinNames(lay, SubSeq(anc, 1, k), Slash)}
      hit == IF v = "P0" THEN byKey ELSE byName
  IN IF v \in {"P2", "P4"} THEN anc[k]
     ELSE IF hit = {} \/ (k = 1 /\ v # "P0") THEN 1
     ELSE nl[CHOOSE m \in hit : \A m2 \in hit : m <= m2]

\* ------------------------------------------------------------------- state
VARIABLES
  variant,      \* which visual.ts of the repository is loaded
  numLevels,    \* level (category) columns the host bound
  valueBound,   \* the host bound a measure column
  rows,         \* the rows of the data view of the last update()
  data,         \* the builder's nodes and the nodes each row walked
  layoutRoot,   \* the partitioned hierarchy (<<>> before the first layout)
  focus,        \* p of the last zoomTo (0: none since the layout was made)
  target        \* d.target per node (<<>>: undefined)

\* the view: what update(), zoomTo() and the transitions' frame callbacks
\* leave in the DOM and on the nodes
VARIABLES
  current,      \* d.current per node of layoutRoot (<<>>: undefined)
  els,          \* the segment <path> elements with their label <text>
  legend,       \* the names of the legend keys
  crumbs,       \* the names of the breadcrumb entries
  threw,        \* the last handler or frame ended with an exception
  oldRan,       \* the last frame ran a callback of a transition that was
                \* created before the last update()
  leftover,     \* label <text> elements still in the DOM whose node belongs
                \* to an earlier tree
  clicks,       \* zoomTo calls made by the user
  wroteOld,     \* the last handler assigned d.target on the nodes of a tree
                \* that an update() had replaced
  lastHandler   \* the handler that ran last: "none", "update" or "click"

pipeline == <<variant, numLevels, valueBound, rows, data, layoutRoot, focus, target>>

view == <<current, els, legend, crumbs, threw, oldRan, leftover, clicks,
         wroteOld, lastHandler>>

vars == <<variant, numLevels, valueBound, rows, data, layoutRoot, focus, target,
          current, els, legend, crumbs, threw, oldRan, leftover, clicks,
          wroteOld, lastHandler>>

\* -------------------------------------------------------------- host input
\* null, a plain label, the same label padded with whitespace, a
\* whitespace-only label, and the string the variant's code singles out:
\* a label holding the path-key separator for buildHierarchyFromFlat, an
\* upper-case "NULL" for the others
Labels(v) ==
  {NullLabel, S_a, S_sp_a, S_sp} \cup (IF v = "P3A" THEN {S_a_sep_a} ELSE {S_NULL})

PlainLabels == {NullLabel, S_a, S_b}

Cells == {NoCell, Num(0), Num(2), Num(-1)}

UsesMeasure(v) == v \in {"DV", "P3A"}

Records(v, nl, vb) ==
  [labels : [1..nl -> IF nl = NumLevels /\ ~vb THEN Labels(v) ELSE PlainLabels],
   measure : IF vb THEN Cells ELSE {NoCell}]

\* ------------------------------------------------------------------ actions
\* the view after the constructor: an empty <g>, legend and crumbs
ViewInit ==
  /\ current = <<>>
  /\ els = <<>>
  /\ legend = <<>>
  /\ crumbs = <<>>
  /\ threw = FALSE
  /\ oldRan = FALSE
  /\ leftover = 0
  /\ clicks = 0
  /\ wroteOld = FALSE
  /\ lastHandler = "none"

\* Spec follows the data pipeline (rows, builder, layout, targets) over the
\* whole input alphabet and leaves the view as constructed; ViewSpec below
\* follows the DOM and the transitions over a smaller alphabet
Init ==
  /\ variant \in Variants
  /\ numLevels \in {NumLevels, DeepLevels}
  /\ valueBound \in (IF UsesMeasure(variant) /\ numLevels = NumLevels
                      THEN BOOLEAN ELSE {FALSE})
  /\ rows = <<>>
  /\ data = [nodes |-> InitNodes(variant), visited |-> <<>>]
  /\ layoutRoot = <<>>
  /\ focus = 0
  /\ target = <<>>
  /\ ViewInit

\* DV returns before the layout when the built tree has no children
ClearsOnEmpty(v, nodes) == v = "DV" /\ IsLeafData(nodes, 1)

\* DV and P3A end update() with zoomTo(layoutRoot, arc, 0)
ZoomsOnUpdate(v) == v \in {"DV", "P3A"}

\* update(options): the host delivers the data view grown by one row
Update ==
  /\ Len(rows) < MaxRows
  /\ \E r \in Records(variant, numLevels, valueBound) :
       LET rows2 == Append(rows, r)
           bs == RowLoop(variant, rows2, Len(rows2), valueBound)
           lay == Partition(variant, bs.nodes)
       IN /\ rows' = rows2
          /\ data' = bs
          /\ IF ClearsOnEmpty(variant, bs.nodes)
             THEN UNCHANGED <<layoutRoot, focus, target>>
             ELSE /\ layoutRoot' = lay
                  /\ focus' = IF ZoomsOnUpdate(variant) THEN 1 ELSE 0
                  /\ target' = IF ZoomsOnUpdate(variant)
                               THEN ZoomTargets(lay, 1) ELSE NoTargets(lay)
  /\ UNCHANGED <<variant, numLevels, valueBound>>
  /\ UNCHANGED view

\* segments are on screen: the last update() rendered a tree
Rendered == layoutRoot # <<>> /\ ~ClearsOnEmpty(variant, data.nodes)

\* click on the segment of node p: zoomTo(p). P4's handler does not stop the
\* event, which bubbles to the svg's click handler: zoomTo(root) follows
ClickSegment ==
  /\ Rendered
  /\ \E p \in 2..Len(layoutRoot) :
       LET q == IF variant = "P4" THEN 1 ELSE p
       IN /\ focus' = q
          /\ target' = ZoomTargets(layoutRoot, q)
  /\ UNCHANGED <<variant, numLevels, valueBound, rows, data, layoutRoot>>
  /\ UNCHANGED view

\* click on the k-th entry of the breadcrumb trail of the focus (k = 1 is the
\* root's entry, which ClickRoot covers; the last entry is no link)
ClickCrumbAt(k) ==
  /\ Rendered
  /\ focus # 0
  /\ k < Len(safeAncestors(layoutRoot, focus))
  /\ focus' = CrumbTarget(variant, layoutRoot, focus, k)
  /\ target' = ZoomTargets(layoutRoot, focus')
  /\ UNCHANGED <<variant, numLevels, valueBound, rows, data, layoutRoot>>
  /\ UNCHANGED view

ClickCrumb == \E k \in 2..DeepLevels : ClickCrumbAt(k)

\* click on the root breadcrumb (its lookup finds no node and falls back to
\* the root) or, in P2 and P4, on the svg background: zoomTo(root)
ClickRoot ==
  /\ Rendered
  /\ variant # "DV"
  /\ focus' = 1
  /\ target' = ZoomTargets(layoutRoot, 1)
  /\ UNCHANGED <<variant, numLevels, valueBound, rows, data, layoutRoot>>
  /\ UNCHANGED view

Next == Update \/ ClickSegment \/ ClickRoot \/ ClickCrumb

Spec == Init /\ [][Next]_vars

\* ------------------------------------------------- vocabulary of the claims
\* the blank test the variant's row loop stops at
Blank(v, x) ==
  CASE v = "DV" -> isBlank(x)
    [] v = "P0" -> norm(x) = NullLabel
    [] v = "P2" -> StopP2(x)
    [] v = "P3B" -> StopP2(x)
    [] v = "P4" -> StopP4(x)
    [] v = "P3A" -> StopFlat(x)

\* number of labels before the record's first blank label
TruncLen(v, labels) == Len(TakeUntil(labels, [k \in 1..Len(labels) |-> Blank(v, labels[k])]))

\* a record's weight: its numeric measure, 1 when it supplies none
RecordWeight(row) == IF row.measure.has THEN row.measure.v ELSE 1

\* the increment the variant's row loop computes for the record
BuilderWeight(v, row, vb) ==
  CASE v = "DV" -> IncDV(row, vb)
    [] v = "P3A" -> RecordWeight(row)
    [] OTHER -> 1

\* the value held on node i (0 when undefined or when the node does not exist)
AccAt(nodes, i) == IF i <= Len(nodes) THEN CellOr0(nodes[i].acc) ELSE 0

RemoveAt(s, r) == SubSeq(s, 1, r - 1) \o SubSeq(s, r + 1, Len(s))

\* the tree update() lays out for a row sequence
LayoutOf(rs) == Partition(variant, RowLoop(variant, rs, Len(rs), valueBound).nodes)

\* the node a row's walk ended at (0: the walk created and reused no node)
EndsAt(r) ==
  IF data.visited[r] = <<>> THEN 0 ELSE data.visited[r][Len(data.visited[r])]

\* blank after normalisation: trims to the empty string, or is "null",
\* "(blank)" or "(empty)" in any letter case
NormBlank(x) ==
  \/ x = NullLabel
  \/ Trim(x) = <<>>
  \/ ToLowerCase(Trim(x)) \in {S_null, S_blank, S_empty}

NormLen(labels) == Len(TakeUntil(labels, [k \in 1..Len(labels) |-> NormBlank(labels[k])]))

\* ------------------------------------------------------------------ claims

\* C1: in every laid-out tree, the children of every node that has children
\* are angularly contiguous in child order, start at the parent's angleStart
\* and end at the parent's angleEnd (so their spans add up to the parent's).
C1_AngularCoverage ==
  \A i \in 1..Len(layoutRoot) :
    LET kids == layoutRoot[i].children
    IN kids # <<>> =>
         /\ layoutRoot[kids[1]].x0 = layoutRoot[i].x0
         /\ \A k \in 2..Len(kids) :
              layoutRoot[kids[k]].x0 = layoutRoot[kids[k - 1]].x1
         /\ layoutRoot[kids[Len(kids)]].x1 = layoutRoot[i].x1

\* C2: every internal node's weight after the hierarchy sum step equals the
\* sum of its children's weights; a weight assigned directly to a node that
\* has children never contributes.
C2_InternalWeightIsChildrenSum ==
  \A i \in 1..Len(layoutRoot) :
    LET kids == layoutRoot[i].children
    IN kids # <<>> =>
         layoutRoot[i].value =
           SumOver({kids[k] : k \in 1..Len(kids)},
                   [c \in 1..Len(layoutRoot) |-> layoutRoot[c].value])

\* C3: the root's weight in the laid-out tree equals the sum of the weights
\* (1 for a record without one) of all records whose truncated path is
\* non-empty, records that end at a node other records extend included
\* (stated for the two builders that leave the parents' totals to the
\* hierarchy sum step: part_000 and buildHierarchyFromDataView without a
\* measure column).
C3_RootWeightIsRecordSum ==
  LET lay == LayoutOf(rows)
      counted == {r \in 1..Len(rows) : TruncLen(variant, rows[r].labels) > 0}
  IN (variant \in {"P0", "DV"} /\ ~valueBound /\ counted # {}) =>
       lay[1].value = SumOver(counted, [r \in 1..Len(rows) |-> RecordWeight(rows[r])])

\* C4: for every record the builder creates or reuses nodes only for the
\* labels before the record's first blank label, and adds the record's
\* weight to the node of the last of them, also when labels follow the blank.
C4_TruncateAtFirstBlank ==
  \A r \in 1..Len(rows) :
    LET n == TruncLen(variant, rows[r].labels)
        trail == data.visited[r]
        w == BuilderWeight(variant, rows[r], valueBound)
        before == RowLoop(variant, rows, r - 1, valueBound).nodes
        after == RowLoop(variant, rows, r, valueBound).nodes
    IN /\ Len(trail) <= n
       /\ Len(after) - Len(before) <= n
       /\ (n > 0 /\ w # 0) =>
            /\ Len(trail) = n
            /\ AccAt(after, trail[n]) = AccAt(before, trail[n]) + w

\* C5: a record whose first label is blank contributes nothing: at every
\* position, the laid-out tree (nodes, weights, spans) is the tree laid out
\* from the sequence without that record.
C5_BlankFirstContributesNothing ==
  \A r \in 1..Len(rows) :
    Blank(variant, rows[r].labels[1]) =>
      LayoutOf(RemoveAt(rows, r)) = LayoutOf(rows)

\* C6: labels are matched after normalisation: siblings never differ only in
\* leading / trailing whitespace, and a label that trims to the empty string
\* or is "null", "(blank)", "(empty)" in any case ends the record's path.
C6_NormalisedMatching ==
  /\ \A r \in 1..Len(rows) : Len(data.visited[r]) <= NormLen(rows[r].labels)
  /\ \A i, j \in 2..Len(data.nodes) :
       (i # j /\ data.nodes[i].parent = data.nodes[j].parent) =>
         Trim(data.nodes[i].name) # Trim(data.nodes[j].name)

\* C7: after a build the own weight held by a node is the sum of the weights
\* of the records whose truncated path ends exactly at it (1 for a record
\* without a numeric weight); duplicates add up.
C7_OwnWeightIsRecordSum ==
  \A i \in 2..Len(data.nodes) :
    CellOr0(data.nodes[i].acc) =
      SumOver({r \in 1..Len(rows) : TruncLen(variant, rows[r].labels) > 0
                                     /\ EndsAt(r) = i},
              [r \in 1..Len(rows) |-> RecordWeight(rows[r])])

\* C8: buildHierarchyFromFlat without levelKeys keys nodes by (parent,
\* label): two records reach the same node at depth d exactly when their
\* first d labels are equal after trimming, and every node is a child of the
\* node its path prefix reaches, whatever characters the labels hold.
C8_FlatKeyedByParentAndLabel ==
  variant = "P3A" =>
    /\ \A r1, r2 \in 1..Len(rows) :
         \A d \in 1..numLevels :
           (d <= Len(data.visited[r1]) /\ d <= Len(data.visited[r2])) =>
             ((data.visited[r1][d] = data.visited[r2][d])
                <=> (\A k \in 1..d :
                       Trim(rows[r1].labels[k]) = Trim(rows[r2].labels[k])))
    /\ \A r \in 1..Len(rows) :
         \A k \in 1..Len(data.visited[r]) :
           data.nodes[data.visited[r][k]].parent =
             (IF k = 1 THEN 1 ELSE data.visited[r][k - 1])

\* C9: zoomTo with the layout root as focus is the identity: every node's
\* target rect equals its static rect.
C9_ZoomToRootIsIdentity ==
  focus = 1 =>
    \A i \in 1..Len(layoutRoot) : target[i] = <<Rect(layoutRoot[i])>>

\* C10: targets depend only on the latest focus and the static layout: a
\* zoomTo(root) that follows a zoomTo of any other node on the same layout
\* leaves every node's target rect equal to its static rect.
C10_ZoomBackToRootRestores ==
  [][(focus \notin {0, 1} /\ focus' = 1 /\ layoutRoot' = layoutRoot) =>
       /\ target' = ZoomTargets(layoutRoot, 1)
       /\ \A i \in 1..Len(layoutRoot) : target'[i] = <<Rect(layoutRoot[i])>>]_vars

\* ---------------------------------------------------------- zoom vocabulary
\* node.ancestors() without the node itself
RECURSIVE Ancestors(_, _)
Ancestors(lay, i) ==
  IF lay[i].parent = 0 THEN {}
  ELSE {lay[i].parent} \cup Ancestors(lay, lay[i].parent)

Descendants(lay, p) == {d \in 1..Len(lay) : p \in Ancestors(lay, d)}

PositiveSpan(d) == QLt(d.x0, d.x1)

\* a zoomTo has assigned targets on the current layout
Zoomed == focus # 0 /\ layoutRoot # <<>> /\ target # <<>>

\* the target rect of node i
T(i) == target[i][1]

\* C11: for a focus p with positive angular span, zoomTo(p) gives p the
\* target angles [0, 2*pi] and inner radius 0, gives every descendant d the
\* angles 2*pi*(d.x - p.x0)/(p.x1 - p.x0), and the children of p tile
\* [0, 2*pi] in proportion to their weights.
C11_FocusFillsCircle ==
  (Zoomed /\ PositiveSpan(layoutRoot[focus])) =>
    LET p == layoutRoot[focus]
        kids == p.children
        wsum == SumOver({kids[k] : k \in 1..Len(kids)},
                        [c \in 1..Len(layoutRoot) |-> layoutRoot[c].value])
    IN /\ T(focus).x0 = QZero /\ T(focus).x1 = QOne /\ T(focus).y0 = QZero
       /\ \A d \in Descendants(layoutRoot, focus) :
            /\ T(d).x0 = QDiv(QSub(layoutRoot[d].x0, p.x0), QSub(p.x1, p.x0))
            /\ T(d).x1 = QDiv(QSub(layoutRoot[d].x1, p.x0), QSub(p.x1, p.x0))
       /\ kids # <<>> =>
            /\ T(kids[1]).x0 = QZero
            /\ \A k \in 2..Len(kids) : T(kids[k]).x0 = T(kids[k - 1]).x1
            /\ T(kids[Len(kids)]).x1 = QOne
            /\ \A k \in 1..Len(kids) :
                 QMul(QSub(T(kids[k]).x1, T(kids[k]).x0), QInt(wsum))
                   = QInt(layoutRoot[kids[k]].value)

\* C12: for a focus p with positive angular span, every node that is neither
\* p nor a descendant nor an ancestor of p gets a target of zero angular
\* width, clamped to 0 or to 2*pi.
C12_OutsidersCollapse ==
  (Zoomed /\ PositiveSpan(layoutRoot[focus])) =>
    \A d \in 1..Len(layoutRoot) :
      (d # focus /\ d \notin Descendants(layoutRoot, focus)
                 /\ d \notin Ancestors(layoutRoot, focus)) =>
        /\ T(d).x0 = T(d).x1
        /\ T(d).x0 \in {QZero, QOne}

\* C13 as stated: every proper ancestor of the focus collapses to zero
\* angular width in the target set (target x0 = target x1).
C13_AncestorsZeroWidth ==
  Zoomed => \A a \in Ancestors(layoutRoot, focus) : T(a).x0 = T(a).x1

\* C13 amended: every proper ancestor of the focus collapses radially, not
\* angularly: its target has y0 = y1 = 0, and when the focus has positive
\* span inside the ancestor's span its target angles are the full [0, 2*pi].
C13_AncestorsCollapseRadially ==
  Zoomed =>
    \A a \in Ancestors(layoutRoot, focus) :
      LET p == layoutRoot[focus]
          A == layoutRoot[a]
      IN /\ T(a).y0 = QZero /\ T(a).y1 = QZero
         /\ (PositiveSpan(p) /\ QLe(A.x0, p.x0) /\ QLe(p.x1, A.x1)) =>
              (T(a).x0 = QZero /\ T(a).x1 = QOne)

\* a focus at depth >= 2 with positive span has been zoomed to
C13_Witness ==
  /\ Zoomed
  /\ layoutRoot[focus].depth >= 2
  /\ PositiveSpan(layoutRoot[focus])
  /\ \A a \in Ancestors(layoutRoot, focus) : T(a).x0 = QZero /\ T(a).x1 = QOne

\* C14: zoomTo never produces an invalid rect: for every tree (all-zero
\* weights included) and every focus (zero span included) every target has
\* four finite fields with 0 <= x0 <= x1 <= 2*pi and 0 <= y0 <= y1.
C14_TargetsValid ==
  Zoomed =>
    \A d \in 1..Len(layoutRoot) :
      /\ IsFinite(T(d).x0) /\ IsFinite(T(d).x1)
      /\ IsFinite(T(d).y0) /\ IsFinite(T(d).y1)
      /\ QLe(QZero, T(d).x0) /\ QLe(T(d).x0, T(d).x1) /\ QLe(T(d).x1, QOne)
      /\ QLe(QZero, T(d).y0) /\ QLe(T(d).y0, T(d).y1)

\* ================================================================ the view
\* ------------------------------------------------------------------ bounds
\* frames a 650 ms transition runs after the frame it starts in
Ticks == 2
\* clicks (zoomTo calls) the user makes
MaxClicks == 2

\* ------------------------------------------------------------ label rule
\* 0.03 rad in turns is 0.03 / (2*pi) = 3 / 628.3...; 3 / 628 decides the
\* same way for every rational with a denominator below 200
LabelMinAngle == Q(3, 628)
\* 12 px of a viewport whose outer radius R is 120 px
LabelMinRadius == Q(12, 120)

\* labelVisible(d): a NaN side compares false
labelVisible(r) ==
  /\ QLt(LabelMinAngle, QSub(r.x1, r.x0))
  /\ QLt(LabelMinRadius, QSub(r.y1, r.y0))

\* --------------------------------------------------------- d3.interpolate
\* interpolateNumber: a * (1 - t) + b * t, NaN propagating
Lerp(a, b, t) == QAdd(QMul(a, QSub(QOne, t)), QMul(b, t))

\* interpolateObject over the four fields of the target
interpolate(a, b, t) ==
  [x0 |-> Lerp(a.x0, b.x0, t), x1 |-> Lerp(a.x1, b.x1, t),
   y0 |-> Lerp(a.y0, b.y0, t), y1 |-> Lerp(a.y1, b.y1, t)]

\* ------------------------------------------------------------- data joins
\* String(depth)
DepthStr(d) ==
  CASE d = 0 -> "0" [] d = 1 -> "1" [] d = 2 -> "2" [] d = 3 -> "3" [] OTHER -> "4"

\* the key function of the path and label joins; j is the datum's index in
\* the data array (P3B joins by index)
JoinKey(v, lay, i, j) ==
  CASE v = "DV" ->
         lay[i].name \o <<Pipe, DepthStr(lay[i].depth), Pipe>> \o lay[lay[i].parent].name
    [] v = "P0" -> JoinNames(lay, safeAncestors(lay, i), Slash)
    [] v = "P3A" -> lay[i].name \o <<Pipe, DepthStr(lay[i].depth)>>
    [] v = "P3B" -> <<j>>
    [] OTHER -> <<DepthStr(lay[i].depth), Pipe>> \o lay[i].name

\* the first element of the old selection with the key (0: none)
FirstWithKey(old, key) ==
  IF \E m \in 1..Len(old) : old[m].key = key
  THEN CHOOSE m \in 1..Len(old) :
         old[m].key = key /\ \A m2 \in 1..(m - 1) : old[m2].key # key
  ELSE 0

\* update()'s d.current: P0 sets it on every node, P2 on the nodes of
\* depth > 0, the others leave it undefined
InitCurrent(v, lay) ==
  [i \in 1..Len(lay) |->
     IF v = "P0" \/ (v = "P2" /\ lay[i].depth > 0) THEN <<Rect(lay[i])>> ELSE <<>>]

\* selection.data(nodes, key).join(...): the element of the j-th datum. A
\* datum takes the first old element that has its key if no earlier datum
\* has the key, and is appended otherwise; the element keeps its scheduled
\* transitions, and update() draws it at the static rect. P3B appends its
\* labels to a new <g> on every update, so no label transition is kept
JoinEl(v, old, lay, nl, j, gen) ==
  LET i == nl[j]
      key == JoinKey(v, lay, i, j)
      dup == \E j2 \in 1..(j - 1) : JoinKey(v, lay, nl[j2], j2) = key
      m == IF dup THEN 0 ELSE FirstWithKey(old, key)
  IN [key |-> key,
      node |-> i,
      d |-> Rect(lay[i]),
      stale |-> FALSE,
      vis |-> labelVisible(Rect(lay[i])),
      born |-> IF m = 0 THEN gen ELSE old[m].born,
      sch |-> IF m = 0 THEN <<>>
              ELSE IF v = "P3B"
                   THEN [k \in 1..Len(old[m].sch) |-> [old[m].sch[k] EXCEPT !.lab = FALSE]]
                   ELSE old[m].sch]

Join(v, old, lay, gen) ==
  LET nl == nodesList(lay)
  IN [j \in 1..Len(nl) |-> JoinEl(v, old, lay, nl, j, gen)]

\* ------------------------------------------------------- legend and crumbs
\* updateLegend: one key per child of the root
LegendOf(lay) == [k \in 1..Len(lay[1].children) |-> lay[lay[1].children[k]].name]

\* updateCrumbs(p): the names rendered as breadcrumb entries. DV drops the
\* first name if it is "root"; the others render the root's name too
updateCrumbs(v, lay, p) ==
  LET seq == [k \in 1..Len(safeAncestors(lay, p)) |-> lay[safeAncestors(lay, p)[k]].name]
  IN IF v = "DV" /\ seq[1] = <<"r", "o", "o", "t">> THEN Tail(seq) ELSE seq

\* ------------------------------------------------------------ transitions
ZeroRect == [x0 |-> QZero, x1 |-> QZero, y0 |-> QZero, y1 |-> QZero]

\* selection.transition(t) on the element e: a schedule in state CREATED.
\* from / to / gen / bad are set when it starts, with cut (the gen of the
\* running transition it interrupted, 0: none) and live (the rect the
\* element was drawn at then).
\* visTo is the visibility the label filters of zoomTo pick from d.target;
\* lab: the element's label is in the label selection zoomTo transitions
NewSched(e, tgt, dur0, lab) ==
  [st |-> "created", k |-> 0, dur0 |-> dur0, gen |-> 0, bad |-> FALSE,
   from |-> ZeroRect, to |-> ZeroRect, cut |-> 0, live |-> ZeroRect,
   visTo |-> tgt[e.node] # <<>> /\ labelVisible(tgt[e.node][1]),
   visLive |-> FALSE, lab |-> lab]

\* zoomTo(p): crumbs, the target of every node of the root the caller holds,
\* and a transition on every path and label. staleRoot: the root of the
\* caller's closure is an earlier tree (P4 binds click on enter only), so the
\* nodes of the current tree keep the target they had. labGen: the update()
\* whose label selection the caller holds
zoomTo(v, lay, elsIn, tgtIn, p, dur0, staleRoot, labGen) ==
  LET tgt == IF staleRoot THEN tgtIn ELSE ZoomTargets(lay, p)
  IN [focus |-> p,
      target |-> tgt,
      crumbs |-> updateCrumbs(v, lay, p),
      els |-> [j \in 1..Len(elsIn) |->
                 [elsIn[j] EXCEPT !.sch =
                    Append(@, NewSched(elsIn[j], tgt, dur0, elsIn[j].born <= labGen))]]]

\* one tick of the schedule s on an element: tween "data" writes d.current,
\* attrTween "d" draws arc(d.current), the style tween writes the label's
\* visibility. A schedule whose closure holds a node of an earlier tree (gen
\* below the current one) writes that node and draws from it. A schedule
\* started without a target (bad) sets d.current to undefined and throws in
\* arc(undefined)
Tick(acc, s, k2, gen) ==
  LET t == IF s.dur0 THEN QOne ELSE Q(k2, Ticks)
      isOld == s.gen < gen
      r == interpolate(s.from, s.to, t)
      done == s.dur0 \/ k2 >= Ticks
  IN [cur |-> IF isOld THEN acc.cur ELSE IF s.bad THEN <<>> ELSE <<r>>,
      d |-> IF s.bad THEN acc.d ELSE r,
      stale |-> IF s.bad THEN acc.stale ELSE isOld,
      vis |-> IF s.lab /\ s.visLive THEN s.visTo ELSE acc.vis,
      threw |-> acc.threw \/ s.bad,
      oldRan |-> acc.oldRan \/ isOld,
      run |-> IF done THEN <<>> ELSE <<[s EXCEPT !.k = k2]>>]

\* start of a schedule (d3-transition's start): the running transition of
\* the element is interrupted, the tweens are initialised from the datum the
\* element holds now, and the first tick runs at the end of the frame.
\* The start rect is d.current, else the static rect (DV, P3A, P3B, P4) or
\* the target (P2: d.current || d.target; P0: interpolate(undefined, b) is b).
\* P0 evaluates labelVisible(d.target) here, the others filtered at zoomTo
Start(v, acc, s, e, lay, tgt, gen) ==
  LET i == e.node
      bad == tgt = <<>> \/ tgt[i] = <<>>
      toR == IF bad THEN ZeroRect ELSE tgt[i][1]
      fromR == IF bad THEN ZeroRect
               ELSE IF acc.cur # <<>> THEN acc.cur[1]
               ELSE IF v \in {"P0", "P2"} THEN toR ELSE Rect(lay[i])
      visTo == IF v = "P0" THEN ~bad /\ labelVisible(toR) ELSE s.visTo
      s2 == [s EXCEPT !.st = "running", !.gen = gen, !.bad = bad,
                      !.from = fromR, !.to = toR, !.visTo = visTo,
                      !.cut = IF acc.run = <<>> THEN 0 ELSE acc.run[1].gen, !.live = acc.d,
                      !.visLive = IF v = "P0" /\ bad THEN FALSE ELSE acc.vis # visTo]
  IN Tick([acc EXCEPT !.run = <<>>], s2, 0, gen)

\* the timers of one element in one frame, oldest first: the running
\* transition ticks, then each created one starts
RECURSIVE Flush(_, _, _, _, _, _, _)
Flush(v, acc, sch, e, lay, tgt, gen) ==
  IF sch = <<>> THEN acc
  ELSE LET s == Head(sch)
       IN IF s.st = "running"
          THEN Flush(v, Tick(acc, s, s.k + 1, gen), Tail(sch), e, lay, tgt, gen)
          ELSE Flush(v, Start(v, acc, s, e, lay, tgt, gen), Tail(sch), e, lay, tgt, gen)

ElFrame(v, e, cur, lay, tgt, gen) ==
  Flush(v, [cur |-> cur[e.node], d |-> e.d, stale |-> e.stale, vis |-> e.vis,
            threw |-> FALSE, oldRan |-> FALSE, run |-> <<>>], e.sch, e, lay, tgt, gen)

\* ------------------------------------------------------------ view actions
\* the records of the view specification: a first-level label or null, below
\* it one label or null (null below null), a zero or a positive measure
ViewRecords(nl, vb) ==
  [labels : {f \in [1..nl -> PlainLabels] :
               \A k \in 2..nl : f[k] # S_b /\ (f[k - 1] = NullLabel => f[k] = NullLabel)},
   measure : IF vb THEN {Num(0), Num(2)} ELSE {NoCell}]

VInit ==
  /\ variant \in Variants
  /\ numLevels = NumLevels
  /\ valueBound = UsesMeasure(variant)
  /\ rows = <<>>
  /\ data = [nodes |-> InitNodes(variant), visited |-> <<>>]
  /\ layoutRoot = <<>>
  /\ focus = 0
  /\ target = <<>>
  /\ ViewInit

\* DV's no-data branch: g.selectAll("*").remove(), then updateLegend reads
\* this.layoutRoot.children: a TypeError while no layout was ever stored,
\* the keys of the stored (earlier) layout afterwards; the crumbs line is
\* reached only if updateLegend returned
ClearDV ==
  /\ els' = <<>>
  /\ leftover' = 0
  /\ IF layoutRoot = <<>>
     THEN /\ threw' = TRUE
          /\ UNCHANGED <<legend, crumbs>>
     ELSE /\ threw' = FALSE
          /\ legend' = LegendOf(layoutRoot)
          /\ crumbs' = <<>>
  /\ oldRan' = FALSE
  /\ wroteOld' = FALSE
  /\ lastHandler' = "update"
  /\ UNCHANGED <<layoutRoot, focus, target, current, clicks>>

\* update() past the no-data test: layout, d.current, the joins, legend and
\* crumbs, and in DV and P3A zoomTo(layoutRoot, arc, 0)
Render(lay, gen) ==
  LET joined == Join(variant, els, lay, gen)
      z == zoomTo(variant, lay, joined, NoTargets(lay), 1, TRUE, FALSE, gen)
  IN /\ layoutRoot' = lay
     /\ current' = InitCurrent(variant, lay)
     /\ legend' = LegendOf(lay)
     /\ crumbs' = updateCrumbs(variant, lay, 1)
     /\ leftover' = IF variant = "P3B" THEN leftover + Len(els) ELSE 0
     /\ IF ZoomsOnUpdate(variant)
        THEN /\ els' = z.els
             /\ focus' = 1
             /\ target' = z.target
        ELSE /\ els' = joined
             /\ focus' = 0
             /\ target' = NoTargets(lay)
     /\ threw' = FALSE
     /\ oldRan' = FALSE
     /\ wroteOld' = FALSE
     /\ lastHandler' = "update"
     /\ UNCHANGED clicks

\* update(options) with a data view grown by one row
VUpdate ==
  /\ Len(rows) < MaxRows
  /\ \E r \in ViewRecords(numLevels, valueBound) :
       LET rows2 == Append(rows, r)
           bs == RowLoop(variant, rows2, Len(rows2), valueBound)
       IN /\ rows' = rows2
          /\ data' = bs
          /\ IF ClearsOnEmpty(variant, bs.nodes)
             THEN ClearDV
             ELSE Render(Partition(variant, bs.nodes), Len(rows2))
  /\ UNCHANGED <<variant, numLevels, valueBound>>

\* clear() of P0, P2, P3B and P4; P4 keeps no root field, its handlers hold
\* the root of the update() that bound them
clear ==
  /\ els' = <<>>
  /\ legend' = <<>>
  /\ crumbs' = <<>>
  /\ leftover' = 0
  /\ IF variant = "P4"
     THEN UNCHANGED <<layoutRoot, focus, target, current>>
     ELSE /\ layoutRoot' = <<>>
          /\ focus' = 0
          /\ target' = <<>>
          /\ current' = <<>>
  /\ threw' = FALSE
  /\ oldRan' = FALSE
  /\ wroteOld' = FALSE
  /\ lastHandler' = "update"
  /\ UNCHANGED clicks

\* update(options) without a data view or without a level column: DV takes
\* its no-data branch, P3A lays out and renders the bare root, the others
\* call clear()
VUpdateNoData ==
  /\ CASE variant = "DV" -> ClearDV
       [] variant = "P3A" -> Render(Partition(variant, InitNodes(variant)), Len(rows))
       [] OTHER -> clear
  /\ UNCHANGED <<variant, numLevels, valueBound, rows, data>>

\* click on the segment els[j]. P4 binds the handler when the element
\* enters, with the root and the label selection of that update(), so the
\* handler of an element kept by a later update() runs zoomTo on the replaced
\* tree. P4's click also bubbles to the svg, whose handler (bound by the last
\* update) calls zoomTo(root, root) next
VClickSegmentAt(j) ==
  /\ clicks < MaxClicks
  /\ j \in 1..Len(els)
  /\ LET staleRoot == variant = "P4" /\ els[j].born < Len(rows)
         z1 == zoomTo(variant, layoutRoot, els, target, els[j].node, FALSE,
                      staleRoot,
                      IF variant = "P4" THEN els[j].born ELSE Len(rows))
         z == IF variant = "P4"
              THEN zoomTo(variant, layoutRoot, z1.els, z1.target, 1, FALSE, FALSE, Len(rows))
              ELSE z1
     IN /\ focus' = z.focus
        /\ target' = z.target
        /\ crumbs' = z.crumbs
        /\ els' = z.els
        /\ wroteOld' = staleRoot
  /\ clicks' = clicks + 1
  /\ threw' = FALSE
  /\ lastHandler' = "click"
  /\ UNCHANGED <<variant, numLevels, valueBound, rows, data, layoutRoot>>
  /\ UNCHANGED <<current, legend, oldRan, leftover>>

VClickSegment == \E j \in 1..Len(els) : VClickSegmentAt(j)

\* click on the root entry of the breadcrumb trail, or on the svg
\* background in P2 and P4: zoomTo(root)
VClickRoot ==
  /\ clicks < MaxClicks
  /\ layoutRoot # <<>>
  /\ variant # "DV"
  /\ variant \in {"P2", "P4"} \/ Len(crumbs) >= 2
  /\ LET z == zoomTo(variant, layoutRoot, els, target, 1, FALSE, FALSE, Len(rows))
     IN /\ focus' = z.focus
        /\ target' = z.target
        /\ crumbs' = z.crumbs
        /\ els' = z.els
  /\ clicks' = clicks + 1
  /\ threw' = FALSE
  /\ wroteOld' = FALSE
  /\ lastHandler' = "click"
  /\ UNCHANGED <<variant, numLevels, valueBound, rows, data, layoutRoot>>
  /\ UNCHANGED <<current, legend, oldRan, leftover>>

\* a transition is scheduled on some element
InFlight == \E j \in 1..Len(els) : els[j].sch # <<>>

\* one animation frame: d3-timer flushes the timers of every element
Frame ==
  /\ InFlight
  /\ LET a == [j \in 1..Len(els) |->
                 ElFrame(variant, els[j], current, layoutRoot, target, Len(rows))]
     IN /\ els' = [j \in 1..Len(els) |->
                     [els[j] EXCEPT !.d = a[j].d, !.stale = a[j].stale,
                                    !.vis = a[j].vis, !.sch = a[j].run]]
        /\ current' = [i \in 1..Len(current) |->
                         IF \E j \in 1..Len(els) : els[j].node = i
                         THEN a[CHOOSE j \in 1..Len(els) : els[j].node = i].cur
                         ELSE current[i]]
        /\ threw' = \E j \in 1..Len(els) : a[j].threw
        /\ oldRan' = \E j \in 1..Len(els) : a[j].oldRan
  /\ UNCHANGED pipeline
  /\ UNCHANGED <<legend, crumbs, leftover, clicks, wroteOld, lastHandler>>

VNext == VUpdate \/ VUpdateNoData \/ VClickSegment \/ VClickRoot \/ Frame

ViewSpec == VInit /\ [][VNext]_vars


\* ------------------------------------------------- vocabulary of the claims
\* update() received no data view, no level column, or rows none of which
\* contributes a path
EmptyUpdate == VUpdateNoData \/ (VUpdate /\ IsLeafData(data'.nodes, 1))

\* the element's node and its rects
CurrentOf(j) == current[els[j].node]
TargetOf(j) == target[els[j].node]

\* the transition running on element j
Running(j) == els[j].sch # <<>> /\ els[j].sch[1].st = "running"

\* a step in which zoomTo ran: a click, or the update() of DV and P3A
ZoomStep ==
  \/ VClickSegment
  \/ VClickRoot
  \/ (VUpdate \/ VUpdateNoData) /\ ZoomsOnUpdate(variant) /\ els' # <<>>

\* names of p's ancestors from the depth-1 ancestor down to p
Trail(lay, p) ==
  [k \in 1..(Len(safeAncestors(lay, p)) - 1) |-> lay[safeAncestors(lay, p)[k + 1]].name]

\* C15: an update() with an empty tree (no data view, no level column, no
\* record with a path) returns without throwing and leaves no segment, no
\* label and no legend entry, whether it is the first update or follows one
\* that rendered a tree
C15_EmptyTreeTolerated ==
  [][EmptyUpdate =>
       ~threw' /\ els' = <<>> /\ leftover' = 0 /\ legend' = <<>>]_vars

\* C16: after update() returned, no frame callback of a transition created
\* before it runs, and no segment is drawn from a rect of the previous tree
C16_UpdateCancelsTransition ==
  ~oldRan /\ \A j \in 1..Len(els) : ~els[j].stale

\* C17: once zoomTo(p) was called and no transition is scheduled any more,
\* the current rect of every rendered node is its target rect in all four
\* fields
C17_EndsAtTarget ==
  (focus # 0 /\ ~InFlight) =>
     \A j \in 1..Len(els) : TargetOf(j) # <<>> /\ CurrentOf(j) = TargetOf(j)

\* C18: in a frame that starts a zoomTo's transition on an element whose
\* earlier transition (on a node of the same tree) is still running, the
\* element is left with at most one running transition, the new
\* interpolation starts from the rect the element was last drawn at, and the
\* last frame of the new transition leaves the node's current rect at its
\* target of the latest zoomTo
C18_InterruptedZoom ==
  [][Frame =>
       \A j \in 1..Len(els) :
          /\ Cardinality({k \in 1..Len(els'[j].sch) : els'[j].sch[k].st = "running"}) <= 1
          /\ (/\ Running(j)
              /\ els[j].sch[1].gen = Len(rows)
              /\ ~els[j].sch[1].bad
              /\ Len(els[j].sch) >= 2
              /\ els'[j].sch # <<>>) =>
                els'[j].sch[1].from = els'[j].sch[1].live
          /\ (Running(j) /\ els[j].sch[1].cut = Len(rows) /\ els'[j].sch = <<>>) =>
                current'[els[j].node] = target'[els[j].node]]_vars

\* C19: while a transition runs, after each of its frames a label is visible
\* exactly if the node's current rect passes labelVisible
C19_VisibilityFollowsCurrent ==
  \A j \in 1..Len(els) :
     Running(j) =>
        (els[j].vis <=> (CurrentOf(j) # <<>> /\ labelVisible(CurrentOf(j)[1])))

\* C20: after every zoomTo(p) the breadcrumb trail is the names of p's
\* ancestors from the depth-1 ancestor down to p, without the root; empty for
\* p = root
C20_TrailExcludesRoot ==
  [][ZoomStep => crumbs' = Trail(layoutRoot', focus')]_vars

\* ------------------------------------------- vocabulary of the later claims
IsPrefix(a, b) == Len(a) <= Len(b) /\ SubSeq(b, 1, Len(a)) = a

\* the deepest level of the laid-out tree
MaxDepthOf(lay) ==
  CHOOSE m \in {lay[i].depth : i \in 1..Len(lay)} :
    \A i \in 1..Len(lay) : lay[i].depth <= m

\* the trimmed labels on the way from the root (exclusive) down to node i
PathOf(lay, i) ==
  [k \in 1..(Len(safeAncestors(lay, i)) - 1) |->
     Trim(lay[safeAncestors(lay, i)[k + 1]].name)]

\* the weight of every label path of a laid-out tree
PathWeights(lay) == {<<PathOf(lay, i), lay[i].value>> : i \in 1..Len(lay)}

\* the record sequence with the records at a and b exchanged
Swap(rs, a, b) ==
  [k \in 1..Len(rs) |-> IF k = a THEN rs[b] ELSE IF k = b THEN rs[a] ELSE rs[k]]

\* C21: a click on a breadcrumb entry while the focus is p makes the node of
\* p's root path that the entry stands for the new focus, and the trail after
\* the click is a prefix of the trail before it.
C21_CrumbFocusesAncestor ==
  [][\A k \in 2..DeepLevels :
       ClickCrumbAt(k) =>
         /\ focus' = safeAncestors(layoutRoot, focus)[k]
         /\ IsPrefix(updateCrumbs(variant, layoutRoot, focus'),
                     updateCrumbs(variant, layoutRoot, focus))]_vars

\* C22 as stated: in every laid-out tree the root has the radial band [0, 0]
\* and a node at depth d >= 1 the band [R * (d - 1) / maxDepth,
\* R * d / maxDepth].
C22_RadialBands ==
  \A i \in 1..Len(layoutRoot) :
    LET d == layoutRoot[i].depth
        m == MaxDepthOf(layoutRoot)
    IN IF d = 0
       THEN layoutRoot[i].y0 = QZero /\ layoutRoot[i].y1 = QZero
       ELSE layoutRoot[i].y0 = Q(d - 1, m) /\ layoutRoot[i].y1 = Q(d, m)

\* C22 amended: every node at depth d >= 0, the root included, has the
\* radial band [R * d / (maxDepth + 1), R * (d + 1) / (maxDepth + 1)]; the
\* root holds the innermost band and the deepest ring ends at R.
C22_BandsPerDepth ==
  layoutRoot # <<>> =>
    LET m == MaxDepthOf(layoutRoot)
    IN /\ \A i \in 1..Len(layoutRoot) :
            /\ layoutRoot[i].y0 = Q(layoutRoot[i].depth, m + 1)
            /\ layoutRoot[i].y1 = Q(layoutRoot[i].depth + 1, m + 1)
       /\ layoutRoot[1].y0 = QZero
       /\ \E i \in 1..Len(layoutRoot) : layoutRoot[i].y1 = QOne

\* a tree with three rings below the root has been laid out
C22_Witness ==
  /\ layoutRoot # <<>>
  /\ MaxDepthOf(layoutRoot) = 3
  /\ \E i \in 1..Len(layoutRoot) :
       /\ layoutRoot[i].depth = 1
       /\ layoutRoot[i].y0 = Q(1, 4)
       /\ layoutRoot[i].y1 = Q(2, 4)

\* C23: for every accepted input, zero and negative measures included, every
\* node of the laid-out tree has 0 <= angleStart <= angleEnd <= 2*pi and a
\* weight that is not negative, and the angleStart of siblings does not
\* decrease in child order.
C23_AnglesAndWeightsValid ==
  \A i \in 1..Len(layoutRoot) :
    LET kids == layoutRoot[i].children
    IN /\ QLe(QZero, layoutRoot[i].x0)
       /\ QLe(layoutRoot[i].x0, layoutRoot[i].x1)
       /\ QLe(layoutRoot[i].x1, QOne)
       /\ layoutRoot[i].value >= 0
       /\ \A k \in 2..Len(kids) :
            QLe(layoutRoot[kids[k - 1]].x0, layoutRoot[kids[k]].x0)

\* C24: in buildHierarchyFromDataView the node at a row's deepest non-blank
\* level is created and receives the row's value (the measure, or 1 without
\* a measure column), also when a level above it is blank (stated for the
\* rows whose value is not 0).
C24_DeepestLevelIsLeaf ==
  variant = "DV" =>
    \A r \in 1..Len(rows) :
      LET names == [k \in 1..RoleCount |-> toText(RoleLabels(rows[r])[k])]
          deep == deepestIdx(names)
          inc == IncDV(rows[r], valueBound)
          trail == data.visited[r]
          before == RowLoop(variant, rows, r - 1, valueBound).nodes
          after == RowLoop(variant, rows, r, valueBound).nodes
      IN (deep > 0 /\ inc # 0) =>
           /\ Len(trail) >= 1
           /\ after[trail[Len(trail)]].depth = deep
           /\ after[trail[Len(trail)]].name = names[deep]
           /\ AccAt(after, trail[Len(trail)]) = AccAt(before, trail[Len(trail)]) + inc

\* C25: in buildHierarchyFromDataView a category path whose rows all carry
\* the measure 0 is still a node of the built tree: every row with a
\* non-blank first level leaves a child of the root with that label.
C25_ZeroMeasureKeepsNode ==
  (variant = "DV" /\ valueBound) =>
    \A r \in 1..Len(rows) :
      (rows[r].measure = Num(0) /\ ~isBlank(rows[r].labels[1])) =>
        \E i \in ChildIds(data.nodes, 1) : data.nodes[i].name = toText(rows[r].labels[1])

\* C28: the weights of the laid-out tree do not depend on the order of the
\* records: exchanging two records leaves the weight of every label path.
C28_OrderIndependentWeights ==
  \A a, b \in 1..Len(rows) :
    PathWeights(LayoutOf(Swap(rows, a, b))) = PathWeights(LayoutOf(rows))

\* C26: in the variants that bind a background click on the svg (P2, P4), a
\* click on the segment of node d leaves the visual zoomed to d once every
\* handler the click triggers has run: the trail ends with d and the targets
\* are those computed relative to d.
C26_SegmentClickKeepsFocus ==
  [][\A j \in 1..Len(els) :
       (VClickSegmentAt(j) /\ variant \in {"P2", "P4"}) =>
         /\ crumbs' # <<>>
         /\ crumbs'[Len(crumbs')] = layoutRoot[els[j].node].name
         /\ target' = ZoomTargets(layoutRoot, els[j].node)]_vars

\* C27: a click on a segment, also on an element kept from an earlier
\* render, assigns targets on the nodes of the current tree only (no node of
\* a replaced tree is written), and every rendered node has a target before
\* its transition starts.
C27_ClickUsesCurrentTree ==
  [][VClickSegment =>
       /\ ~wroteOld'
       /\ \A j \in 1..Len(els') : target'[els'[j].node] # <<>>]_vars

\* C29: after an update() that rendered a tree and the frames that follow
\* it (no click in between, no transition left), the breadcrumb trail is the
\* one of the root and every segment is drawn at its static rect.
C29_UpdateResetsToRoot ==
  (lastHandler = "update" /\ els # <<>> /\ ~InFlight) =>
    /\ crumbs = updateCrumbs(variant, layoutRoot, 1)
    /\ \A j \in 1..Len(els) : els[j].d = Rect(layoutRoot[els[j].node])

\* C30: while a tree is rendered, the segment paths and the label texts are
\* one per node of depth >= 1 of the latest tree, and no label of an earlier
\* update() is left in the DOM.
C30_ElementsMatchTree ==
  els # <<>> =>
    /\ Len(els) = Len(layoutRoot) - 1
    /\ leftover = 0

====
